---- MODULE Spec2Model ----
(***************************************************************************)
(* Billing / payment reconciliation core of Tendayship-backend:            *)
(*   services/payment_service.py   KakaoPayService (gateway client +       *)
(*                                 pending-payment cache + approve flow)   *)
(*   crud/subscription_crud.py     SubscriptionCRUD / PaymentCRUD (ledger) *)
(*   api/routes/subscription.py    the redirect callbacks, cancellation    *)
(*   services/subscription_admin_service.py, api/routes/family.py          *)
(*                                 cancellation on group deletion          *)
(*                                                                         *)
(* Every await of the code (gateway call, database statement, commit) is   *)
(* a suspension point, so each one is an action of its own.  The database  *)
(* is PostgreSQL behind SQLAlchemy sessions (one session per request,      *)
(* autoflush off, READ COMMITTED): a request's writes stay pending until   *)
(* its commit, a statement reads the committed rows, a write to a row (or  *)
(* to the unique key of a group) waits for the transaction that holds it.  *)
(***************************************************************************)
EXTENDS Integers, Sequences, FiniteSets, TLC

\* ------------------------------------------------------------- bounds
NReq == 2
NCancel == 2
MaxDay == 1
NRun == 2

\* ------------------------------------------------- program constants
Amount == 6900
BillingPeriod == 30

Groups == {1, 2}
\* the payments prepared in a run: two transactions T1, T2
PayIds == {1, 2}
Reqs == 1..NReq
CancelReqs == 1..NCancel
\* the firings of the billing job's trigger
Runs == 1..NRun
\* users 1 and 2 lead groups 1 and 2, user 3 is a plain member of group 1,
\* user 4 belongs to no group
Users == {1, 2, 3, 4}
\* the tid the gateway gives the recurring charge that run j of the billing
\* job makes for group g's subscription, and the aid of its approval
ChargeTid(j, g) == 10 * j + g
ChargeAid(j, g) == 1000 + ChargeTid(j, g)
\* the transaction ids the gateway knows: those of this run, those of the
\* payments the ledger starts with and those of the recurring charges
Tids == PayIds \cup {0 - g : g \in Groups}
             \cup {ChargeTid(j, g) : j \in Runs, g \in Groups}

\* leader (payer) of a group: supplied by the membership layer
Leader(g) == g

NoKey == 0
NoDate == 0 - 999
NoReason == "none"

VARIABLES
    today,      \* date.today()
    payment_cache,      \* KakaoPayService._payment_cache: the keys present
    payment_info,    \* the payment_info dict stored under the keys of payment i
    gw,         \* the gateway's own state of transaction i
    subs,       \* committed rows of table subscriptions
    payments,   \* committed rows of table payments, in created_at order
    pc,         \* position of approve request r
    req,        \* locals of approve request r
    resp,       \* the redirect request r was answered with
    gwRes,      \* what the gateway answered to request r's approve call
    cancelLog,  \* gateway cancel calls issued by request r, each with the
                \* gateway's answer and what the service logged of it
    racing,     \* history: requests that held a gateway approval for a group
                \* while another request of that group held one too
    last,       \* the last ready_payment / cancel / fail request and its answer
    cancelReq,  \* position and locals of cancellation request c
    runs,       \* position and locals of run j of the billing job
    subscription_history    \* committed rows of table subscription_history

vars == <<today, payment_cache, payment_info, gw, subs, payments, pc, req, resp, gwRes,
          cancelLog, racing, last, cancelReq, runs, subscription_history>>

\* what the approve flow owns, and what the other handlers own
approveVars == <<pc, req, resp, gwRes, cancelLog, racing>>

\* ------------------------------------------------------------- keys
TempKey(i) == <<"temp_id", i>>
TidKey(i) == <<"tid", i>>
\* the ids the gateway hands out on approve: aid (approval) and sid (mandate)
Aid(i) == 1000 + i
Sid(i) == 2000 + i

\* ------------------------------------------------------------- rows
NoRow ==
    [id |-> 0, group_id |-> 0, user_id |-> 0, status |-> "none",
     start_date |-> NoDate, end_date |-> NoDate, next_billing_date |-> NoDate,
     amount |-> 0, payment_method |-> "none", pg_customer_key |-> NoKey,
     cancel_reason |-> NoReason]

NoPayment ==
    [subscription_id |-> 0, transaction_id |-> 0, pg_tid |-> 0, amount |-> 0,
     payment_method |-> "none", status |-> "none"]

NoInfo ==
    [prepared |-> FALSE, group_id |-> 0, user_id |-> 0, amount |-> 0,
     is_subscription |-> FALSE]

NoReq == [pay |-> 0, loaded |-> NoRow, target |-> NoRow]

NoResp == [page |-> "none", error |-> "none", subscription_id |-> 0]

\* a request of ready_payment or of the cancel / fail callbacks: who sent
\* it, the temp_id its URL carried, what the gateway answered to the call it
\* made ("none": no call), and the status and detail it was answered with
Http(handler, user, temp_id, gateway, status, detail) ==
    [handler |-> handler, user |-> user, temp_id |-> temp_id, gateway |-> gateway,
     status |-> status, detail |-> detail]

NoLast == Http("none", 0, 0, "none", 0, "none")

\* what cancel_subscription and the group deletion answer
NoCancelResp ==
    [status |-> 0, message |-> "none", cancelled_at |-> NoDate, refund_amount |-> 0,
     payment_cancel_status |-> "none"]

\* locals of a cancellation request
NoCancelReq ==
    [pc |-> "idle", kind |-> "none", user |-> 0, subscription_id |-> 0, group_id |-> 0,
     subscription |-> NoRow, recent_payment |-> NoPayment, refunded |-> FALSE,
     payment_cancel_status |-> "none", refund_amount |-> 0, calls |-> <<>>,
     gateway |-> "none", resp |-> NoCancelResp]

\* family_member_crud.check_user_membership: the membership row of a user
\* a firing of the billing job that has not happened yet
NoRun ==
    [pc |-> "idle", due |-> <<>>, k |-> 0, gateway |-> "none", expired |-> FALSE,
     broken |-> FALSE, attempts |-> <<>>]

NoMembership == [group_id |-> 0, role |-> "none"]

check_user_membership(u) ==
    IF u \in Groups THEN [group_id |-> u, role |-> "LEADER"]
    ELSE IF u = 3 THEN [group_id |-> 1, role |-> "MEMBER"]
    ELSE NoMembership

MethodOf(key) == IF key # NoKey THEN "kakao_pay_subscription" ELSE "kakao_pay"

\* a row a cancellation left behind, its last payment refunded
CancelledRow(g) ==
    [id |-> 0 - g, group_id |-> g, user_id |-> Leader(g), status |-> "CANCELLED",
     start_date |-> 0, end_date |-> 0, next_billing_date |-> BillingPeriod,
     amount |-> Amount, payment_method |-> "kakao_pay", pg_customer_key |-> NoKey,
     cancel_reason |-> "user_request"]

RefundedPayment(g) ==
    [subscription_id |-> 0 - g, transaction_id |-> 0 - g, pg_tid |-> 0 - g,
     amount |-> Amount, payment_method |-> "kakao_pay", status |-> "REFUNDED"]

\* a row a failed re-charge left behind: expire_subscription keeps the key
ExpiredRow(g) ==
    [id |-> 0 - g, group_id |-> g, user_id |-> Leader(g), status |-> "EXPIRED",
     start_date |-> 0 - BillingPeriod, end_date |-> 0, next_billing_date |-> 0,
     amount |-> Amount, payment_method |-> "kakao_pay_subscription",
     pg_customer_key |-> 0 - g, cancel_reason |-> "charge_failed"]

FirstPayment(g) ==
    [subscription_id |-> 0 - g, transaction_id |-> 0 - g, pg_tid |-> 0 - g,
     amount |-> Amount, payment_method |-> "kakao_pay_subscription",
     status |-> "SUCCESS"]

\* ------------------------------------------------------------- queries
RowsOfGroup(g) == {s \in subs : s.group_id = g}

ActiveRows(g) == {s \in subs : s.group_id = g /\ s.status = "ACTIVE"}

get_by_group_id_simple_none(g) == NoRow

get_by_group_id_simple(g) ==
    IF ActiveRows(g) = {} THEN NoRow
    ELSE CHOOSE s \in ActiveRows(g) : \A t \in ActiveRows(g) : t.id <= s.id

get_any_by_group_id(g) ==
    IF RowsOfGroup(g) = {} THEN NoRow
    ELSE CHOOSE s \in RowsOfGroup(g) : \A t \in RowsOfGroup(g) : t.id <= s.id

PaymentRows == {payments[k] : k \in 1..Len(payments)}

Info(r) == payment_info[req[r].pay]

\* ------------------------------------------------------------- Init
\* the ledger a group starts with: nothing, or the row (and its last payment)
\* that an earlier cancellation or an earlier failed re-charge left behind.
\* Groups share nothing, so one group with a past and one without cover the
\* starts there are.
Histories == {"none", "cancelled", "expired"}

Starts == {[g \in Groups |-> IF g = 1 THEN k ELSE "none"] : k \in Histories}

RECURSIVE OldPayments(_, _)
OldPayments(h, S) ==
    IF S = {} THEN <<>>
    ELSE LET g == CHOOSE x \in S : \A y \in S : x <= y
         IN  (IF h[g] = "cancelled" THEN <<RefundedPayment(g)>>
              ELSE IF h[g] = "expired" THEN <<FirstPayment(g)>>
              ELSE <<>>) \o OldPayments(h, S \ {g})

\* the gateway's state of the transactions of those last payments
OldGateway(h, i) ==
    IF (0 - i) \notin Groups THEN "none"
    ELSE IF h[0 - i] = "cancelled" THEN "cancelled"
    ELSE IF h[0 - i] = "expired" THEN "approved"
    ELSE "none"

Init ==
    /\ today = 0
    /\ payment_cache = {}
    /\ payment_info = [i \in PayIds |-> NoInfo]
    /\ \E h \in Starts :
          /\ subs = {CancelledRow(g) : g \in {x \in Groups : h[x] = "cancelled"}}
                    \cup {ExpiredRow(g) : g \in {x \in Groups : h[x] = "expired"}}
          /\ payments = OldPayments(h, Groups)
          /\ gw = [i \in Tids |-> OldGateway(h, i)]
    /\ pc = [r \in Reqs |-> "idle"]
    /\ req = [r \in Reqs |-> NoReq]
    /\ resp = [r \in Reqs |-> NoResp]
    /\ gwRes = [r \in Reqs |-> "none"]
    /\ cancelLog = [r \in Reqs |-> <<>>]
    /\ racing = {}
    /\ last = NoLast
    /\ cancelReq = [c \in CancelReqs |-> NoCancelReq]
    /\ runs = [j \in Runs |-> NoRun]
    /\ subscription_history = <<>>

\* ------------------------------------------------------------- clock
Tick ==
    /\ today < MaxDay
    /\ today' = today + 1
    /\ UNCHANGED <<payment_cache, payment_info, gw, subs, payments, pc, req, resp, gwRes,
                   cancelLog, racing>>
    /\ UNCHANGED <<last, cancelReq, runs, subscription_history>>

\* ------------------------------------------------------------- prepare
\* the context create_payment_ready stores under both keys of payment i
PreparedInfo(g, is_subscription) ==
    [prepared |-> TRUE, group_id |-> g, user_id |-> Leader(g), amount |-> Amount,
     is_subscription |-> is_subscription]

CachePut(i) == payment_cache \cup {TempKey(i), TidKey(i)}

\* the gateway's answers to POST /online/v1/payment/ready
ReadyAnswers == {"ok", "no_tid", "rejected", "timeout", "network_error"}

ReadyFails_tid_unchecked(answer) == answer \notin {"ok", "no_tid"}

\* client.post() raises, raise_for_status() raises, or the answer has no tid
\* (payment_service.py 58-65)
ReadyFails(answer) == answer # "ok"

\* the request is refused: HTTPException, nothing else happens
Refuse(answer) ==
    /\ last' = answer
    /\ UNCHANGED <<payment_cache, payment_info, gw>>

\* ready_payment with create_payment_ready: user u asks for a payment of the
\* group they belong to.  uuid4 and the gateway hand out fresh ids, so the
\* payment is i, the next unused one.
ready_payment(u, i, is_subscription, answer) ==
    /\ ~payment_info[i].prepared
    /\ \A j \in PayIds : j < i => payment_info[j].prepared
    /\ LET membership == check_user_membership(u)
           g == membership.group_id
       IN  IF membership = NoMembership
             THEN Refuse(Http("ready_payment", u, 0, "none", 404, "no_membership"))
           ELSE IF membership.role # "LEADER"
             THEN Refuse(Http("ready_payment", u, 0, "none", 403, "not_leader"))
           ELSE IF get_by_group_id_simple(g) # NoRow
             THEN Refuse(Http("ready_payment", u, 0, "none", 400, "already_active"))
           ELSE IF ReadyFails(answer)
             THEN Refuse(Http("ready_payment", u, 0, answer, 500, "ready_failed"))
           ELSE /\ payment_info' = [payment_info EXCEPT
                                      ![i] = PreparedInfo(g, is_subscription)]
                /\ gw' = [gw EXCEPT ![i] = "ready"]
                /\ payment_cache' = CachePut(i)
                /\ last' = Http("ready_payment", u, i, answer, 200, "ok")
    /\ UNCHANGED <<today, subs, payments, approveVars, cancelReq, runs,
                   subscription_history>>

\* the request that succeeds: sent by the leader of a group without an
\* ACTIVE row, answered by the gateway with a tid
Prepare(i, g, is_subscription) ==
    /\ get_by_group_id_simple(g) = NoRow
    /\ ready_payment(Leader(g), i, is_subscription, "ok")

\* the cancel and fail callbacks (subscription.py 109-117): the gateway
\* redirects the browser to cancel_url / fail_url, which carry ?temp_id=
\* (payment_service.py 41-42); the handlers take no parameter
route_cancel_payment(i) ==
    /\ payment_info[i].prepared
    /\ last' = Http("cancel_payment", payment_info[i].user_id, i, "none", 307, "cancel")
    /\ UNCHANGED <<today, payment_cache, payment_info, gw, subs, payments,
                   approveVars, cancelReq, runs, subscription_history>>

route_fail_payment(i) ==
    /\ payment_info[i].prepared
    /\ last' = Http("fail_payment", payment_info[i].user_id, i, "none", 307, "fail")
    /\ UNCHANGED <<today, payment_cache, payment_info, gw, subs, payments,
                   approveVars, cancelReq, runs, subscription_history>>

\* ------------------------------------------------------------- approve
\* what the route answers: a redirect to the success page or to the fail page
Redirect(page, error, sub_id) ==
    [page |-> page, error |-> error, subscription_id |-> sub_id]

\* the route's except branch (subscription.py 102-107): temp_id leaves the payment_cache
RouteFail(r, i, error, cache_now) ==
    /\ payment_cache' = cache_now \ {TempKey(i)}
    /\ resp' = [resp EXCEPT ![r] = Redirect("fail", error, 0)]
    /\ pc' = [pc EXCEPT ![r] = "done"]
    /\ req' = [req EXCEPT ![r] = [NoReq EXCEPT !.pay = i]]

\* the service's last except branch (payment_service.py 187-190): tid leaves
ServiceRaise(i) == payment_cache \ {TidKey(i)}

Start_unchecked(r, i) ==
    /\ pc[r] = "idle"
    /\ \A q \in Reqs : q < r => pc[q] # "idle"
    /\ pc' = [pc EXCEPT ![r] = "gateway"]
    /\ req' = [req EXCEPT ![r].pay = i]
    /\ UNCHANGED <<today, payment_cache, payment_info, gw, subs, payments, resp, gwRes,
                   cancelLog, racing, last, cancelReq, runs, subscription_history>>

\* approve_payment, up to its first await
Start(r, i) ==
    /\ pc[r] = "idle"
    /\ \A q \in Reqs : q < r => pc[q] # "idle"
    /\ IF TempKey(i) \notin payment_cache
         THEN RouteFail(r, i, "context_not_found", payment_cache)
       ELSE IF TidKey(i) \notin payment_cache
         THEN RouteFail(r, i, "context_not_found", ServiceRaise(i))
       ELSE /\ pc' = [pc EXCEPT ![r] =
                        IF payment_info[i].is_subscription THEN "precheck" ELSE "gateway"]
            /\ req' = [req EXCEPT ![r].pay = i]
            /\ UNCHANGED <<payment_cache, resp>>
    /\ UNCHANGED <<today, payment_info, gw, subs, payments, gwRes, cancelLog, racing>>
    /\ UNCHANGED <<last, cancelReq, runs, subscription_history>>

\* the duplicate check of a recurring first payment (payment_service.py 111-114)
Precheck(r) ==
    /\ pc[r] = "precheck"
    /\ LET existing == get_by_group_id_simple(Info(r).group_id)
       IN  IF existing # NoRow /\ existing.pg_customer_key # NoKey
             THEN RouteFail(r, req[r].pay, "already_active_recurring",
                            ServiceRaise(req[r].pay))
             ELSE /\ pc' = [pc EXCEPT ![r] = "gateway"]
                  /\ UNCHANGED <<payment_cache, resp, req>>
    /\ UNCHANGED <<today, payment_info, gw, subs, payments, gwRes, cancelLog, racing>>
    /\ UNCHANGED <<last, cancelReq, runs, subscription_history>>

\* the gateway's answers to POST /online/v1/payment/approve.  A transaction
\* is approved once; a second approve of it is answered with an error code.
\* A timeout tells nothing: the charge may or may not have been made.
ApproveOutcomes == {"ok", "rejected", "already", "timeout", "timeout_charged"}

GatewayAnswers(i, outcome) ==
    CASE outcome = "ok" -> gw[i] = "ready"
      [] outcome = "rejected" -> gw[i] = "ready"
      [] outcome = "already" -> gw[i] \in {"approved", "cancelled"}
      [] outcome = "timeout" -> TRUE
      [] outcome = "timeout_charged" -> gw[i] = "ready"

RaisesStatusError_ignored(outcome) == FALSE

\* response.raise_for_status(): httpx.HTTPStatusError
RaisesStatusError(outcome) == outcome \in {"rejected", "already"}

\* client.post() itself raises: httpx.TimeoutException, httpx.NetworkError
RaisesTransportError(outcome) == outcome \in {"timeout", "timeout_charged"}

\* result.get("sid"): the mandate key the gateway issues for a recurring setup
SidOf(r) == IF Info(r).is_subscription THEN Sid(req[r].pay) ELSE NoKey

\* requests of the same group that hold a gateway approval and have not
\* yet finished their local transaction
InFlight == {"upsert", "flush_sub", "commit", "compensate"}

Peers(r) ==
    {q \in Reqs \ {r} : pc[q] \in InFlight /\ Info(q).group_id = Info(r).group_id}

GatewayApprove(r, outcome) ==
    /\ pc[r] = "gateway"
    /\ GatewayAnswers(req[r].pay, outcome)
    /\ gwRes' = [gwRes EXCEPT ![r] = outcome]
    /\ gw' = [gw EXCEPT ![req[r].pay] =
                IF outcome \in {"ok", "timeout_charged"} THEN "approved" ELSE @]
    /\ IF RaisesStatusError(outcome)
         THEN /\ RouteFail(r, req[r].pay, "approve_failed", payment_cache)
              /\ UNCHANGED racing
       ELSE IF RaisesTransportError(outcome)
         THEN /\ RouteFail(r, req[r].pay, "transport_error", ServiceRaise(req[r].pay))
              /\ UNCHANGED racing
       ELSE /\ pc' = [pc EXCEPT ![r] = "upsert"]
            /\ racing' = IF Peers(r) = {} THEN racing ELSE racing \cup Peers(r) \cup {r}
            /\ UNCHANGED <<payment_cache, resp, req>>
    /\ UNCHANGED <<today, payment_info, subs, payments, cancelLog>>
    /\ UNCHANGED <<last, cancelReq, runs, subscription_history>>

upsert_keeps_dates(existing, new_id, group_id, user_id, amount, key, day) ==
    IF existing # NoRow
      THEN [existing EXCEPT
              !.user_id = user_id,
              !.status = "ACTIVE",
              !.end_date = NoDate,
              !.amount = amount,
              !.payment_method = MethodOf(key),
              !.pg_customer_key = IF key # NoKey THEN key ELSE @,
              !.cancel_reason = NoReason]
      ELSE [id |-> new_id, group_id |-> group_id, user_id |-> user_id,
            status |-> "ACTIVE", start_date |-> day, end_date |-> NoDate,
            next_billing_date |-> day + BillingPeriod, amount |-> amount,
            payment_method |-> MethodOf(key), pg_customer_key |-> key,
            cancel_reason |-> NoReason]

\* SubscriptionCRUD.upsert_activate_subscription on the row it selected
upsert_activate_subscription(existing, new_id, group_id, user_id, amount, key, day) ==
    IF existing # NoRow
      THEN [existing EXCEPT
              !.user_id = user_id,
              !.status = "ACTIVE",
              !.start_date = day,
              !.end_date = NoDate,
              !.next_billing_date = day + BillingPeriod,
              !.amount = amount,
              !.payment_method = MethodOf(key),
              !.pg_customer_key = IF key # NoKey THEN key ELSE @,
              !.cancel_reason = NoReason]
      ELSE [id |-> new_id, group_id |-> group_id, user_id |-> user_id,
            status |-> "ACTIVE", start_date |-> day, end_date |-> NoDate,
            next_billing_date |-> day + BillingPeriod, amount |-> amount,
            payment_method |-> MethodOf(key), pg_customer_key |-> key,
            cancel_reason |-> NoReason]

\* the SELECT of get_any_by_group_id and the in-memory change of the row
UpsertRead(r) ==
    /\ pc[r] = "upsert"
    /\ LET existing == get_any_by_group_id(Info(r).group_id)
       IN  req' = [req EXCEPT
                     ![r].loaded = existing,
                     ![r].target = upsert_activate_subscription(
                                      existing, req[r].pay, Info(r).group_id,
                                      Info(r).user_id, Info(r).amount, SidOf(r), today)]
    /\ pc' = [pc EXCEPT ![r] = "flush_sub"]
    /\ UNCHANGED <<today, payment_cache, payment_info, gw, subs, payments, resp, gwRes,
                   cancelLog, racing>>
    /\ UNCHANGED <<last, cancelReq, runs, subscription_history>>

\* except Exception as db_error: rollback, then on to the compensating cancel
DbError(r) ==
    /\ pc' = [pc EXCEPT ![r] = "compensate"]
    /\ req' = [req EXCEPT ![r] = [NoReq EXCEPT !.pay = req[r].pay]]

\* another transaction holds an uncommitted write to the group's row or key
Locked(r) ==
    \E q \in Reqs \ {r} :
        /\ pc[q] = "commit"
        /\ req[q].target # req[q].loaded
        /\ Info(q).group_id = Info(r).group_id

UniqueViolation_unchecked(g) == FALSE

\* subscriptions.group_id is unique (models/subscription.py 55)
UniqueViolation(g) == RowsOfGroup(g) # {}

\* PaymentCRUD.create_payment as approve_payment calls it
create_payment(subscription_id, transaction_id, amount, payment_method, pg_tid) ==
    [subscription_id |-> subscription_id, transaction_id |-> transaction_id,
     pg_tid |-> pg_tid, amount |-> amount, payment_method |-> payment_method,
     status |-> "SUCCESS"]

\* payments.transaction_id is unique (models/subscription.py 92)
DuplicateTransaction(aid) == \E p \in PaymentRows : p.transaction_id = aid

Flushed(r) ==
    /\ pc' = [pc EXCEPT ![r] = "commit"]
    /\ UNCHANGED req

\* db.flush() of the subscription (INSERT of the new row, or UPDATE of the
\* changed columns of the loaded one), db.refresh(), and the flush of the
\* payment INSERT.  The payment INSERT touches nothing another request can
\* see before the commit, so the three statements are one step here.
Flush(r, db_fails) ==
    /\ pc[r] = "flush_sub"
    /\ IF db_fails THEN DbError(r)
       ELSE IF req[r].loaded = NoRow
         THEN /\ ~Locked(r)
              /\ IF UniqueViolation(Info(r).group_id)
                      \/ DuplicateTransaction(Aid(req[r].pay))
                   THEN DbError(r) ELSE Flushed(r)
       ELSE IF req[r].target = req[r].loaded
         THEN IF DuplicateTransaction(Aid(req[r].pay)) THEN DbError(r) ELSE Flushed(r)
       ELSE /\ ~Locked(r)
            /\ IF (\A s \in subs : s.id # req[r].loaded.id)
                      \/ DuplicateTransaction(Aid(req[r].pay))
                 THEN DbError(r) ELSE Flushed(r)
    /\ UNCHANGED <<today, payment_cache, payment_info, gw, subs, payments, resp, gwRes,
                   cancelLog, racing>>
    /\ UNCHANGED <<last, cancelReq, runs, subscription_history>>

\* the UPDATE sets the columns the session changed and leaves the others
Merge(current, loaded, target) ==
    [c \in DOMAIN current |-> IF target[c] # loaded[c] THEN target[c] ELSE current[c]]

SubsAfterCommit(r) ==
    IF req[r].target = req[r].loaded THEN subs
    ELSE IF req[r].loaded = NoRow THEN subs \cup {req[r].target}
    ELSE LET current == CHOOSE s \in subs : s.id = req[r].loaded.id
         IN  (subs \ {current}) \cup {Merge(current, req[r].loaded, req[r].target)}

PaymentOf_keyed_by_tid(r) ==
    create_payment(req[r].target.id, req[r].pay, Info(r).amount,
        IF Info(r).is_subscription THEN "kakao_pay_subscription" ELSE "kakao_pay",
        req[r].pay)

\* the payment row approve_payment adds (payment_service.py 145-154)
PaymentOf(r) ==
    create_payment(req[r].target.id, Aid(req[r].pay), Info(r).amount,
        IF Info(r).is_subscription THEN "kakao_pay_subscription" ELSE "kakao_pay",
        req[r].pay)

PaymentsAfterCommit(r) == Append(payments, PaymentOf(r))

\* after the commit the service drops tid, the route drops temp_id and tid
CacheAfterSuccess(i) == payment_cache \ {TidKey(i), TempKey(i)}

\* db.commit(): both writes become visible together, or none does.  What
\* follows the commit up to the redirect has no await and only drops the
\* request's own payment_cache keys, so it is part of this step.
Commit(r, db_fails) ==
    /\ pc[r] = "commit"
    /\ IF db_fails
         THEN /\ DbError(r)
              /\ UNCHANGED <<subs, payments, payment_cache, resp>>
         ELSE /\ subs' = SubsAfterCommit(r)
              /\ payments' = PaymentsAfterCommit(r)
              /\ payment_cache' = CacheAfterSuccess(req[r].pay)
              /\ resp' = [resp EXCEPT ![r] =
                            Redirect("success", "none", req[r].target.id)]
              /\ pc' = [pc EXCEPT ![r] = "done"]
              /\ req' = [req EXCEPT ![r] = [NoReq EXCEPT !.pay = req[r].pay]]
    /\ UNCHANGED <<today, payment_info, gw, gwRes, cancelLog, racing>>
    /\ UNCHANGED <<last, cancelReq, runs, subscription_history>>

\* the gateway's answers to POST /online/v1/payment/cancel
CancelOutcomes == {"ok", "already", "failed"}

CancelAnswers(i, outcome) ==
    CASE outcome = "ok" -> gw[i] = "approved"
      [] outcome = "already" -> gw[i] = "cancelled"
      [] outcome = "failed" -> TRUE

CompensatingCancel_other_amount(r) ==
    [tid |-> req[r].pay, cancel_amount |-> 0,
     is_subscription |-> Info(r).is_subscription]

\* the request cancel_payment sends for the transaction just approved
CompensatingCancel(r) ==
    [tid |-> req[r].pay, cancel_amount |-> Info(r).amount,
     is_subscription |-> Info(r).is_subscription]

CompensationLog_silent(outcome) == [level |-> "error", admin_check |-> TRUE, text |-> "other"]

\* what the log holds of the compensating cancel: the info line of
\* cancel_payment when it returned (payment_service.py 266), else the error
\* line "... (관리자 확인 필요): str(cp_e)" of approve_payment (175), whose
\* text is that of the exception cancel_payment raised (274-279)
CompensationLog(outcome) ==
    CASE outcome = "ok" -> [level |-> "info", admin_check |-> FALSE, text |-> "none"]
      [] outcome = "already" -> [level |-> "error", admin_check |-> TRUE, text |-> "-780"]
      [] OTHER -> [level |-> "error", admin_check |-> TRUE, text |-> "other"]

\* the call with its answer and its log line
Compensation(r, outcome) ==
    [tid |-> CompensatingCancel(r).tid,
     cancel_amount |-> CompensatingCancel(r).cancel_amount,
     is_subscription |-> CompensatingCancel(r).is_subscription,
     answer |-> outcome,
     logged |-> CompensationLog(outcome)]

\* payment_service.py 169-176, then 187-190 and the route's except branch
Compensate(r, outcome) ==
    /\ pc[r] = "compensate"
    /\ CancelAnswers(req[r].pay, outcome)
    /\ cancelLog' = [cancelLog EXCEPT ![r] = Append(@, Compensation(r, outcome))]
    /\ gw' = [gw EXCEPT ![req[r].pay] = IF outcome = "ok" THEN "cancelled" ELSE @]
    /\ RouteFail(r, req[r].pay, "db_save_failed", ServiceRaise(req[r].pay))
    /\ UNCHANGED <<today, payment_info, subs, payments, gwRes, racing>>
    /\ UNCHANGED <<last, cancelReq, runs, subscription_history>>

\* ------------------------------------------------------------- Spec
Next ==
    \/ Tick
    \/ \E i \in PayIds, g \in Groups, b \in BOOLEAN : Prepare(i, g, b)
    \/ \E r \in Reqs, i \in PayIds : Start(r, i)
    \/ \E r \in Reqs : Precheck(r)
    \/ \E r \in Reqs, o \in ApproveOutcomes : GatewayApprove(r, o)
    \/ \E r \in Reqs : UpsertRead(r)
    \/ \E r \in Reqs, f \in BOOLEAN : Flush(r, f)
    \/ \E r \in Reqs, f \in BOOLEAN : Commit(r, f)
    \/ \E r \in Reqs, o \in CancelOutcomes : Compensate(r, o)

Spec == Init /\ [][Next]_vars

\* a handler that has started runs on: the event loop resumes every
\* coroutine whose await has completed
Resume(r) ==
    \/ Precheck(r)
    \/ \E o \in ApproveOutcomes : GatewayApprove(r, o)
    \/ UpsertRead(r)
    \/ \E f \in BOOLEAN : Flush(r, f)
    \/ \E f \in BOOLEAN : Commit(r, f)
    \/ \E o \in CancelOutcomes : Compensate(r, o)

FairSpec == Spec /\ \A r \in Reqs : WF_vars(Resume(r))

\* ------------------------------------------------- a settled ledger
\* The states the handlers below start from: the ledger of group 1 after
\* earlier flows have completed.  "single" / "recurring": payment 1 was
\* prepared and approved on a group without a row; "reactivated": payment 1
\* was approved on the CANCELLED row; "cancelled" / "expired": as in Init.
Ledgers == {"none", "single", "recurring", "reactivated", "cancelled", "expired"}

\* the group that ledger belongs to
Subscribed == {1}

Consumed(k) == k \in {"single", "recurring", "reactivated"}

KeyOfLedger(k) == IF k = "recurring" THEN Sid(1) ELSE NoKey

LedgerSubs(k) ==
    CASE k = "none" -> {}
      [] k \in {"single", "recurring"} ->
            {upsert_activate_subscription(NoRow, 1, 1, Leader(1), Amount,
                                          KeyOfLedger(k), 0)}
      [] k = "reactivated" ->
            {upsert_activate_subscription(CancelledRow(1), 1, 1, Leader(1), Amount,
                                          NoKey, 0)}
      [] k = "cancelled" -> {CancelledRow(1)}
      [] k = "expired" -> {ExpiredRow(1)}

LedgerPayments(k) ==
    CASE k = "none" -> <<>>
      [] k \in {"single", "recurring"} ->
            <<create_payment(1, Aid(1), Amount, MethodOf(KeyOfLedger(k)), 1)>>
      [] k = "reactivated" ->
            <<RefundedPayment(1),
              create_payment(0 - 1, Aid(1), Amount, MethodOf(NoKey), 1)>>
      [] k = "cancelled" -> <<RefundedPayment(1)>>
      [] k = "expired" -> <<FirstPayment(1)>>

LedgerGateway(k, i) ==
    IF i = 1 THEN (IF Consumed(k) THEN "approved" ELSE "none")
    ELSE IF i = 0 - 1 /\ k \in {"cancelled", "reactivated"} THEN "cancelled"
    ELSE IF i = 0 - 1 /\ k = "expired" THEN "approved"
    ELSE "none"

Settled ==
    /\ today = 0
    /\ payment_cache = {}
    /\ \E k \in Ledgers :
          /\ subs = LedgerSubs(k)
          /\ payments = LedgerPayments(k)
          /\ gw = [i \in Tids |-> LedgerGateway(k, i)]
          /\ payment_info = [i \in PayIds |->
                               IF i = 1 /\ Consumed(k)
                                 THEN PreparedInfo(1, k = "recurring") ELSE NoInfo]
    /\ pc = [r \in Reqs |-> "idle"]
    /\ req = [r \in Reqs |-> NoReq]
    /\ resp = [r \in Reqs |-> NoResp]
    /\ gwRes = [r \in Reqs |-> "none"]
    /\ cancelLog = [r \in Reqs |-> <<>>]
    /\ racing = {}
    /\ last = NoLast
    /\ cancelReq = [c \in CancelReqs |-> NoCancelReq]
    /\ runs = [j \in Runs |-> NoRun]
    /\ subscription_history = <<>>

\* ------------------------------------------------- prepare and callbacks
ReadyNext ==
    \/ \E u \in Users, i \in PayIds, b \in BOOLEAN, a \in ReadyAnswers :
          ready_payment(u, i, b, a)
    \/ \E i \in PayIds : route_cancel_payment(i)
    \/ \E i \in PayIds : route_fail_payment(i)

ReadySpec == Settled /\ [][ReadyNext]_vars

\* ------------------------------------------------------------- cancellation
\* cancel_subscription (routes/subscription.py 185-267) and the group
\* deletion (routes/family.py 325-339, routes/admin.py 175-191 with
\* SubscriptionAdminService).  A request's session keeps the rows it loaded;
\* its changes reach the database with its commit.
\* the ids a request names: the id of group 1's row is one of them
SubIds == {0 - 1, 1}

\* who sends cancellation requests: the payer of group 1's subscription and
\* somebody else
Callers == {Leader(g) : g \in Groups}

\* BaseCRUD.get: the row with that primary key
get(subscription_id) ==
    IF \E s \in subs : s.id = subscription_id
      THEN CHOOSE s \in subs : s.id = subscription_id
      ELSE NoRow

PaymentsOfSub(subscription_id) ==
    {k \in 1..Len(payments) : payments[k].subscription_id = subscription_id}

get_first_payment(subscription_id) ==
    LET K == PaymentsOfSub(subscription_id)
    IN  IF K = {} THEN NoPayment
        ELSE payments[CHOOSE k \in K : \A j \in K : k <= j]

\* PaymentCRUD.get_recent_payment: order_by(desc(created_at)).limit(1)
get_recent_payment(subscription_id) ==
    LET K == PaymentsOfSub(subscription_id)
    IN  IF K = {} THEN NoPayment
        ELSE payments[CHOOSE k \in K : \A j \in K : j <= k]

cancel_subscription_keeps_status(subscription, reason, day) ==
    [subscription EXCEPT !.end_date = day, !.cancel_reason = reason,
                         !.pg_customer_key = NoKey]

\* SubscriptionCRUD.cancel_subscription on the loaded row
cancel_subscription(subscription, reason, day) ==
    [subscription EXCEPT !.status = "CANCELLED", !.end_date = day,
                         !.cancel_reason = reason, !.pg_customer_key = NoKey]

mark_refunded_noop(P, transaction_id) == P

\* PaymentCRUD.mark_refunded, as the commit writes it
mark_refunded(P, transaction_id) ==
    [k \in 1..Len(P) |->
        IF P[k].transaction_id = transaction_id
          THEN [P[k] EXCEPT !.status = "REFUNDED"] ELSE P[k]]

\* db.delete(sub): the row goes, and its payments with it (cascade)
RECURSIVE WithoutPaymentsOf(_, _)
WithoutPaymentsOf(P, subscription_id) ==
    IF P = <<>> THEN <<>>
    ELSE IF Head(P).subscription_id = subscription_id
      THEN WithoutPaymentsOf(Tail(P), subscription_id)
    ELSE <<Head(P)>> \o WithoutPaymentsOf(Tail(P), subscription_id)

\* the gateway's answers to the cancel call of a cancellation: its codes
\* -780 (already cancelled) and -721 (invalid tid, whose msg text may or may
\* not say "invalid tid"), any other error status, a timeout before or after
\* the gateway cancelled
RefundOutcomes ==
    {"ok", "code_780", "code_721", "code_721_invalid_tid", "rejected", "timeout",
     "timeout_cancelled"}

RefundAnswers(tid, outcome) ==
    CASE outcome \in {"ok", "timeout_cancelled"} -> gw[tid] = "approved"
      [] outcome = "code_780" -> gw[tid] = "cancelled"
      [] OTHER -> TRUE

\* what str(e) of the exception cancel_payment raises holds of the texts the
\* callers look for (payment_service.py 269-283)
ErrorText(outcome) ==
    CASE outcome = "code_780" -> "-780"
      [] outcome = "code_721_invalid_tid" -> "invalid tid"
      [] OTHER -> "other"

StatusOfRefund_lenient(outcome) ==
    IF outcome = "ok" THEN "success" ELSE "already_cancelled"

\* payment_cancel_status (subscription.py 232-243, admin service 42-55)
StatusOfRefund(outcome) ==
    IF outcome = "ok" THEN "success"
    ELSE IF ErrorText(outcome) \in {"invalid tid", "-721", "-780"}
      THEN "already_cancelled"
    ELSE "failed"

IsOwner_any(subscription, u) == TRUE

\* subscription.user_id != current_user.id (subscription.py 199)
IsOwner(subscription, u) == subscription.user_id = u

IdempotentReturn_refunding(subscription) ==
    [status |-> 200, message |-> "already_cancelled",
     cancelled_at |-> subscription.end_date, refund_amount |-> subscription.amount,
     payment_cancel_status |-> "none"]

\* the answer for a subscription that is CANCELLED (subscription.py 205-210)
IdempotentReturn(subscription) ==
    [status |-> 200, message |-> "already_cancelled",
     cancelled_at |-> subscription.end_date, refund_amount |-> 0,
     payment_cancel_status |-> "none"]

HttpError(status, detail) ==
    [NoCancelResp EXCEPT !.status = status, !.message = detail]

\* the request is answered: its session is closed
Answer(c, resp_c) ==
    cancelReq' = [cancelReq EXCEPT
                    ![c].pc = "done", ![c].resp = resp_c,
                    ![c].subscription = NoRow, ![c].recent_payment = NoPayment,
                    ![c].refunded = FALSE, ![c].gateway = "none"]

\* the group row is there until a deletion has run to its end
GroupExists(g) ==
    \A b \in CancelReqs :
        ~(/\ cancelReq[b].kind = "group_delete" /\ cancelReq[b].group_id = g
          /\ cancelReq[b].pc = "done" /\ cancelReq[b].resp.status = 200)

CanStart(c) ==
    /\ cancelReq[c].pc = "idle"
    /\ \A b \in CancelReqs : b < c => cancelReq[b].pc # "idle"

\* cancel_subscription up to the status check (subscription.py 192-210)
CancelBegin(c, u, subscription_id) ==
    /\ CanStart(c)
    /\ LET subscription == get(subscription_id)
           me == [cancelReq[c] EXCEPT !.kind = "subscriber", !.user = u,
                                      !.subscription_id = subscription_id]
       IN  IF subscription = NoRow
             THEN cancelReq' = [cancelReq EXCEPT ![c] =
                     [me EXCEPT !.pc = "done", !.resp = HttpError(404, "not_found")]]
           ELSE IF ~IsOwner(subscription, u)
             THEN cancelReq' = [cancelReq EXCEPT ![c] =
                     [me EXCEPT !.pc = "done", !.resp = HttpError(403, "not_owner")]]
           ELSE IF subscription.status = "CANCELLED"
             THEN cancelReq' = [cancelReq EXCEPT ![c] =
                     [me EXCEPT !.pc = "done", !.resp = IdempotentReturn(subscription)]]
           ELSE cancelReq' = [cancelReq EXCEPT ![c] =
                     [me EXCEPT !.pc = "recent", !.subscription = subscription,
                                !.group_id = subscription.group_id]]
    /\ UNCHANGED <<today, payment_cache, payment_info, gw, subs, payments,
                   approveVars, last, runs, subscription_history>>

\* cancel_active_subscription_if_any up to its first query (admin service
\* 19-21), called by the group deletion for the leader's group g
DeleteBegin(c, g) ==
    /\ CanStart(c)
    /\ GroupExists(g)
    /\ LET sub == get_by_group_id_simple(g)
           me == [cancelReq[c] EXCEPT !.kind = "group_delete", !.user = Leader(g),
                                      !.group_id = g]
       IN  IF sub = NoRow
             THEN cancelReq' = [cancelReq EXCEPT ![c] = [me EXCEPT !.pc = "delete"]]
             ELSE cancelReq' = [cancelReq EXCEPT ![c] =
                     [me EXCEPT !.pc = "recent", !.subscription = sub,
                                !.subscription_id = sub.id]]
    /\ UNCHANGED <<today, payment_cache, payment_info, gw, subs, payments,
                   approveVars, last, runs, subscription_history>>

\* get_recent_payment and the choice of the tid to cancel (subscription.py
\* 213-224 and 244-245, admin service 24-34)
CancelRecent(c) ==
    /\ cancelReq[c].pc = "recent"
    /\ LET recent == get_recent_payment(cancelReq[c].subscription_id)
       IN  cancelReq' = [cancelReq EXCEPT
              ![c].recent_payment = recent,
              ![c].payment_cancel_status =
                    IF recent = NoPayment THEN "no_payment"
                    ELSE IF recent.pg_tid = 0 THEN "failed" ELSE "none",
              ![c].pc = IF recent = NoPayment \/ recent.pg_tid = 0
                          THEN "write" ELSE "gateway"]
    /\ UNCHANGED <<today, payment_cache, payment_info, gw, subs, payments,
                   approveVars, last, runs, subscription_history>>

Refunds_always(outcome) == TRUE

\* mark_refunded is called when cancel_payment returned, i.e. the gateway
\* confirmed the cancel (subscription.py 227-234, admin service 37-45)
Refunds(outcome) == outcome = "ok"

\* the request cancel_payment sends: both flows leave is_subscription at its
\* default
RefundCall(c) ==
    [tid |-> cancelReq[c].recent_payment.pg_tid,
     cancel_amount |-> cancelReq[c].recent_payment.amount,
     is_subscription |-> FALSE]

\* payment_service.cancel_payment and what the caller makes of its outcome;
\* mark_refunded changes the loaded payment, to be written by the commit
CancelRefund(c, outcome) ==
    /\ cancelReq[c].pc = "gateway"
    /\ RefundAnswers(cancelReq[c].recent_payment.pg_tid, outcome)
    /\ gw' = [gw EXCEPT ![cancelReq[c].recent_payment.pg_tid] =
                IF outcome \in {"ok", "timeout_cancelled"} THEN "cancelled" ELSE @]
    /\ cancelReq' = [cancelReq EXCEPT
          ![c].calls = Append(@, RefundCall(c)),
          ![c].gateway = outcome,
          ![c].payment_cancel_status = StatusOfRefund(outcome),
          ![c].refund_amount =
                IF StatusOfRefund(outcome) \in {"success", "already_cancelled"}
                  THEN cancelReq[c].recent_payment.amount ELSE 0,
          ![c].refunded = Refunds(outcome),
          ![c].pc = "write"]
    /\ UNCHANGED <<today, payment_cache, payment_info, subs, payments, approveVars,
                   last, runs, subscription_history>>

ReasonOf(c) == IF cancelReq[c].kind = "subscriber" THEN "user_request" ELSE "group_delete"

\* what the request returns once its cancellation is committed
CancelledReturn(c) ==
    [status |-> 200, message |-> "cancelled", cancelled_at |-> today,
     refund_amount |-> cancelReq[c].refund_amount,
     payment_cancel_status |-> cancelReq[c].payment_cancel_status]

\* subscription_crud.cancel_subscription and db.commit() (subscription.py
\* 247-267; admin service 59 with family.py 327): the UPDATEs of the
\* subscription and of the refunded payment become visible together.  A row
\* that is gone, or a failing statement, ends in rollback and a 500.
CancelCommit(c, db_fails) ==
    /\ cancelReq[c].pc = "write"
    /\ LET current == get(cancelReq[c].subscription_id)
           loaded == cancelReq[c].subscription
       IN  IF db_fails \/ current = NoRow
             THEN /\ Answer(c, HttpError(500, "cancel_failed"))
                  /\ UNCHANGED <<subs, payments>>
             ELSE /\ subs' = (subs \ {current}) \cup
                        {Merge(current, loaded,
                               cancel_subscription(loaded, ReasonOf(c), today))}
                  /\ payments' =
                        IF cancelReq[c].refunded
                          THEN mark_refunded(payments,
                                   cancelReq[c].recent_payment.transaction_id)
                          ELSE payments
                  /\ IF cancelReq[c].kind = "subscriber"
                       THEN Answer(c, CancelledReturn(c))
                       ELSE cancelReq' = [cancelReq EXCEPT ![c].pc = "delete"]
    /\ UNCHANGED <<today, payment_cache, payment_info, gw, approveVars, last, runs,
                   subscription_history>>

\* hard_delete_subscription_by_group and db.commit() (admin service 69-84,
\* family.py 329-330); the removal of the group row that follows touches no
\* subscription or payment
HardDelete(c, db_fails) ==
    /\ cancelReq[c].pc = "delete"
    /\ LET sub == get_any_by_group_id(cancelReq[c].group_id)
       IN  IF db_fails
             THEN /\ Answer(c, HttpError(500, "delete_failed"))
                  /\ UNCHANGED <<subs, payments>>
             ELSE /\ subs' = subs \ {sub}
                  /\ payments' = WithoutPaymentsOf(payments, sub.id)
                  /\ Answer(c, [status |-> 200, message |-> "group_deleted",
                                cancelled_at |-> NoDate,
                                refund_amount |-> cancelReq[c].refund_amount,
                                payment_cancel_status |->
                                    cancelReq[c].payment_cancel_status])
    /\ UNCHANGED <<today, payment_cache, payment_info, gw, approveVars, last, runs,
                   subscription_history>>

CancelNext ==
    \/ Tick
    \/ \E c \in CancelReqs, u \in Callers, i \in SubIds : CancelBegin(c, u, i)
    \/ \E c \in CancelReqs, g \in Subscribed : DeleteBegin(c, g)
    \/ \E c \in CancelReqs : CancelRecent(c)
    \/ \E c \in CancelReqs, o \in RefundOutcomes : CancelRefund(c, o)
    \/ \E c \in CancelReqs, f \in BOOLEAN : CancelCommit(c, f)
    \/ \E c \in CancelReqs, f \in BOOLEAN : HardDelete(c, f)

CancelSpec == Settled /\ [][CancelNext]_vars

\* ------------------------------------------------------------- billing
\* The billing job process_recurring_payments (workers/billing_worker.py
\* 96-127) with charge_recurring_payment (payment_service.py 192-248).  It
\* starts from ledgers in which each group's subscription was activated a
\* billing period ago ("due"), a day later ("tomorrow"), without a mandate
\* ("single"), or was cancelled or expired since.
BillingLedgers == {"none", "due", "tomorrow", "single", "cancelled", "expired"}

BillingRow(g, k) ==
    CASE k = "due" ->
            upsert_activate_subscription(NoRow, 0 - g, g, Leader(g), Amount, 0 - g,
                                         0 - BillingPeriod)
      [] k = "tomorrow" ->
            upsert_activate_subscription(NoRow, 0 - g, g, Leader(g), Amount, 0 - g,
                                         1 - BillingPeriod)
      [] k = "single" ->
            upsert_activate_subscription(NoRow, 0 - g, g, Leader(g), Amount, NoKey,
                                         0 - BillingPeriod)
      [] k = "cancelled" ->
            [CancelledRow(g) EXCEPT !.start_date = 0 - BillingPeriod,
                                    !.next_billing_date = 0]
      [] k = "expired" -> ExpiredRow(g)
      [] OTHER -> NoRow

RECURSIVE BillingPayments(_, _)
BillingPayments(h, S) ==
    IF S = {} THEN <<>>
    ELSE LET g == CHOOSE x \in S : \A y \in S : x <= y
         IN  (CASE h[g] = "none" -> <<>>
                [] h[g] = "cancelled" -> <<RefundedPayment(g)>>
                [] OTHER -> <<create_payment(0 - g, 0 - g, Amount,
                                             BillingRow(g, h[g]).payment_method,
                                             0 - g)>>)
             \o BillingPayments(h, S \ {g})

BillingGateway(h, i) ==
    IF (0 - i) \notin Groups THEN "none"
    ELSE CASE h[0 - i] = "none" -> "none"
           [] h[0 - i] = "cancelled" -> "cancelled"
           [] OTHER -> "approved"

BillingInit ==
    /\ today = 0
    /\ payment_cache = {}
    /\ payment_info = [i \in PayIds |-> NoInfo]
    /\ \E h \in [Groups -> BillingLedgers] :
          /\ subs = {BillingRow(g, h[g]) : g \in {x \in Groups : h[x] # "none"}}
          /\ payments = BillingPayments(h, Groups)
          /\ gw = [i \in Tids |-> BillingGateway(h, i)]
    /\ pc = [r \in Reqs |-> "idle"]
    /\ req = [r \in Reqs |-> NoReq]
    /\ resp = [r \in Reqs |-> NoResp]
    /\ gwRes = [r \in Reqs |-> "none"]
    /\ cancelLog = [r \in Reqs |-> <<>>]
    /\ racing = {}
    /\ last = NoLast
    /\ cancelReq = [c \in CancelReqs |-> NoCancelReq]
    /\ runs = [j \in Runs |-> NoRun]
    /\ subscription_history = <<>>

DueRows_any_status(S, day) ==
    {s \in S : s.next_billing_date <= day /\ s.pg_customer_key # NoKey}

\* the WHERE clause of get_due_subscriptions (subscription_crud.py 98-104)
DueRows(S, day) ==
    {s \in S : /\ s.status = "ACTIVE"
               /\ s.next_billing_date <= day
               /\ s.pg_customer_key # NoKey}

\* the rows of a result in the order the loop takes them (the query has no
\* ORDER BY; the order of the ids is taken)
RECURSIVE InIdOrder(_)
InIdOrder(S) ==
    IF S = {} THEN <<>>
    ELSE LET s == CHOOSE x \in S : \A y \in S : x.id <= y.id
         IN  <<s>> \o InIdOrder(S \ {s})

\* SubscriptionCRUD.get_due_subscriptions
get_due_subscriptions == InIdOrder(DueRows(subs, today))

update_next_billing_date_noop(row, day) == row

\* SubscriptionCRUD.update_next_billing_date on the row with that id
update_next_billing_date(row, day) ==
    [row EXCEPT !.next_billing_date = day + BillingPeriod]

\* SubscriptionCRUD.expire_subscription on the row with that id
expire_subscription(row, reason, day) ==
    [row EXCEPT !.status = "EXPIRED", !.end_date = day, !.cancel_reason = reason]

\* the positions in which a run is executing
Executing == {"charging", "commit", "expire"}

MaxInstancesReached_never(j) == FALSE

\* job_defaults max_instances 1 (billing_worker.py 33-36): the scheduler
\* starts no instance of the job while one is executing
MaxInstancesReached(j) == \E b \in Runs : b # j /\ runs[b].pc \in Executing

\* the trigger fires: the run is skipped, or it queries the due
\* subscriptions and returns if there are none (billing_worker.py 104-110)
RunStart(j) ==
    /\ runs[j].pc = "idle"
    /\ \A b \in Runs : b < j => runs[b].pc # "idle"
    /\ IF MaxInstancesReached(j)
         THEN runs' = [runs EXCEPT ![j].pc = "skipped"]
         ELSE LET due_subscriptions == get_due_subscriptions
              IN  runs' = [runs EXCEPT
                     ![j].due = due_subscriptions,
                     ![j].k = IF due_subscriptions = <<>> THEN 0 ELSE 1,
                     ![j].pc = IF due_subscriptions = <<>> THEN "done"
                               ELSE "charging"]
    /\ UNCHANGED <<today, payment_cache, payment_info, gw, subs, payments,
                   approveVars, last, cancelReq, subscription_history>>

\* the subscription object the loop is at, as the query loaded it
SubOf(j) == runs[j].due[runs[j].k]

\* the session of the worker is made without expire_on_commit=False
\* (billing_worker.py 82-87): db.commit() and db.rollback() expire every
\* object the session loaded.  Reading sub.id of an expired object needs a
\* SELECT, which an AsyncSession refuses outside an await: the f-string of
\* logger.error in the loop's handler (billing_worker.py 119-120) raises, and
\* that exception leaves the loop for the outer handler (126-127).  With the
\* objects not expired the handler counts the failure and the loop goes on.
AfterAttempt(me) ==
    IF me.expired THEN [me EXCEPT !.pc = "aborted"]
    ELSE IF me.k < Len(me.due) THEN [me EXCEPT !.pc = "charging", !.k = @ + 1]
    ELSE [me EXCEPT !.pc = "done"]

\* the gateway's answers to POST /online/v1/payment/subscription: approval,
\* an error status, a timeout before or after the gateway charged
ChargeOutcomes == {"ok", "rejected", "timeout", "timeout_charged"}

\* the payload of the charge (payment_service.py 198-206)
ChargeCall(sub) ==
    [subscription_id |-> sub.id, sid |-> sub.pg_customer_key,
     total_amount |-> sub.amount]

\* charge_recurring_payment up to the gateway's answer (payment_service.py
\* 194-213); a transport error goes to the generic handler, which rolls
\* back and raises again (245-248)
ChargeGateway(j, outcome) ==
    /\ runs[j].pc = "charging"
    /\ LET sub == SubOf(j)
           tid == ChargeTid(j, sub.group_id)
           me == [runs[j] EXCEPT !.attempts = Append(@, ChargeCall(sub)),
                                 !.gateway = outcome]
       IN  /\ gw' = [gw EXCEPT ![tid] =
                        IF outcome \in {"ok", "timeout_charged"} THEN "approved" ELSE @]
           /\ runs' = [runs EXCEPT ![j] =
                 CASE outcome = "ok" -> [me EXCEPT !.pc = "commit"]
                   [] outcome = "rejected" -> [me EXCEPT !.pc = "expire"]
                   [] OTHER -> AfterAttempt([me EXCEPT !.expired = TRUE])]
    /\ UNCHANGED <<today, payment_cache, payment_info, subs, payments, approveVars,
                   last, cancelReq, subscription_history>>

\* create_payment, update_next_billing_date and db.commit() (payment_service.py
\* 215-232): the INSERT and the UPDATE become visible together.  A failing
\* statement (also: the session's transaction is already broken, the
\* subscription row is gone) goes to the generic handler, which rolls back.
\* After the commit, logger.info reads subscription.id of the expired
\* object, which raises into the same handler.
ChargeCommit(j, db_fails) ==
    /\ runs[j].pc = "commit"
    /\ LET sub == SubOf(j)
           current == get(sub.id)
           me == [runs[j] EXCEPT !.expired = TRUE, !.broken = FALSE]
       IN  /\ IF db_fails \/ runs[j].broken \/ current = NoRow
                THEN UNCHANGED <<subs, payments>>
                ELSE /\ payments' = Append(payments,
                            create_payment(sub.id, ChargeAid(j, sub.group_id),
                                           sub.amount, "kakao_pay_subscription",
                                           ChargeTid(j, sub.group_id)))
                     /\ subs' = (subs \ {current})
                                   \cup {update_next_billing_date(current, today)}
           /\ runs' = [runs EXCEPT ![j] = AfterAttempt(me)]
    /\ UNCHANGED <<today, payment_cache, payment_info, gw, approveVars, last,
                   cancelReq, subscription_history>>

\* how the statements of the rejection handler can fail: the UPDATE itself
\* (nothing is rolled back, the transaction stays broken) or the commit
\* (the session rolls back)
DbFailures == {"none", "execute", "commit"}

\* the handler of a gateway rejection (payment_service.py 234-244):
\* expire_subscription and db.commit(); what it raises, also a database
\* error, goes to the loop's handler
ChargeExpire(j, db_fails) ==
    /\ runs[j].pc = "expire"
    /\ LET sub == SubOf(j)
           current == get(sub.id)
       IN  IF db_fails = "execute" \/ runs[j].broken
             THEN /\ runs' = [runs EXCEPT ![j] =
                                 AfterAttempt([runs[j] EXCEPT !.broken = TRUE])]
                  /\ UNCHANGED subs
           ELSE IF db_fails = "commit"
             THEN /\ runs' = [runs EXCEPT ![j] =
                                 AfterAttempt([runs[j] EXCEPT !.expired = TRUE])]
                  /\ UNCHANGED subs
           ELSE /\ subs' = IF current = NoRow THEN subs
                           ELSE (subs \ {current})
                                   \cup {expire_subscription(current, "charge_failed",
                                                             today)}
                /\ runs' = [runs EXCEPT ![j] =
                               AfterAttempt([runs[j] EXCEPT !.expired = TRUE])]
    /\ UNCHANGED <<today, payment_cache, payment_info, gw, payments, approveVars,
                   last, cancelReq, subscription_history>>

BillingNext ==
    \/ Tick
    \/ \E j \in Runs : RunStart(j)
    \/ \E j \in Runs, o \in ChargeOutcomes : ChargeGateway(j, o)
    \/ \E j \in Runs, f \in BOOLEAN : ChargeCommit(j, f)
    \/ \E j \in Runs, f \in DbFailures : ChargeExpire(j, f)

BillingSpec == BillingInit /\ [][BillingNext]_vars

\* ------------------------------------------------------------- claims
PayOf(r) == req[r].pay
GroupOf(r) == payment_info[req[r].pay].group_id
Done(r) == pc[r] = "done"
Succeeded(r) == pc[r] = "done" /\ resp[r].page = "success"
FailedWith(r, error) == pc[r] = "done" /\ resp[r].page = "fail" /\ resp[r].error = error
CancelledOwn(r) ==
    /\ Len(cancelLog[r]) = 1
    /\ cancelLog[r][1].tid = PayOf(r)

\* two requests of one group, for two different transactions, that both
\* held a gateway approval at the same time
Raced(r1, r2) ==
    /\ r1 # r2
    /\ {r1, r2} \subseteq racing
    /\ gwRes[r1] = "ok" /\ gwRes[r2] = "ok"
    /\ PayOf(r1) # PayOf(r2)
    /\ GroupOf(r1) = GroupOf(r2)

\* C1: in every reachable state every group has at most one Subscription row
\* with status ACTIVE, whatever approve calls interleave on it.
C1_AtMostOneActive == \A g \in Groups : Cardinality(ActiveRows(g)) <= 1

\* two approvals of one group raced, one on a group that had no row, and
\* the group has its one ACTIVE row
C1_Witness ==
    \E r1, r2 \in Reqs :
        /\ Raced(r1, r2) /\ Done(r1) /\ Done(r2)
        /\ Succeeded(r1)
        /\ FailedWith(r2, "db_save_failed")
        /\ Cardinality(ActiveRows(GroupOf(r1))) = 1

\* C2: when two approvals of one group's two transactions run concurrently
\* and the gateway approved both, exactly one activates the subscription and
\* the other fails as a duplicate with a gateway cancel of its own transaction.
C2_ExactlyOneWins ==
    \A r1, r2 \in Reqs :
        (Raced(r1, r2) /\ Done(r1) /\ Done(r2)) =>
            \/ Succeeded(r1) /\ FailedWith(r2, "db_save_failed") /\ CancelledOwn(r2)
            \/ Succeeded(r2) /\ FailedWith(r1, "db_save_failed") /\ CancelledOwn(r1)

ActiveIn(S, g) == {s \in S : s.group_id = g /\ s.status = "ACTIVE"}
PaymentsOfTid(P, i) == {k \in 1..Len(P) : P[k].pg_tid = i}
KeysOf(i) == {TempKey(i), TidKey(i)}

\* the step in which request r commits its local transaction
CommitStep(r) == pc[r] = "commit" /\ pc'[r] = "done" /\ resp'[r].page = "success"

\* C3: an approve for a group that already has an ACTIVE subscription (a
\* stale or duplicate callback, no other approval in flight) ends, once the
\* gateway approved it, without any ledger write, with a gateway cancel of
\* its own transaction, its payment_cache entry purged, as a duplicate failure.
C3_StaleApproveWritesNothing ==
    [][\A r \in Reqs :
          (/\ pc[r] \in InFlight
           /\ r \notin racing
           /\ ActiveRows(GroupOf(r)) # {}
           /\ pc'[r] = "done")
          => /\ resp'[r].page = "fail"
             /\ Len(cancelLog'[r]) = 1
             /\ cancelLog'[r][1].tid = PayOf(r)
             /\ KeysOf(PayOf(r)) \cap payment_cache' = {}
             /\ subs' = subs
             /\ payments' = payments]_vars

\* C4: activation and payment recording are atomic: the ledger changes only
\* in a step that adds the approval's SUCCESS Payment row (transaction_id the
\* approval id, pg_tid the prepare-time id) and leaves its Subscription
\* ACTIVE; an approval has its Payment row exactly when it committed.
C4_AtomicActivation ==
    /\ [](\A r \in Reqs :
            gwRes[r] = "ok" =>
               (Succeeded(r) <=> PaymentsOfTid(payments, PayOf(r)) # {}))
    /\ [][(subs' # subs \/ payments' # payments) =>
            \E r \in Reqs :
               /\ CommitStep(r)
               /\ Len(payments') = Len(payments) + 1
               /\ SubSeq(payments', 1, Len(payments)) = payments
               /\ LET p == payments'[Len(payments')]
                  IN  /\ p.transaction_id = Aid(PayOf(r))
                      /\ p.pg_tid = PayOf(r)
                      /\ p.status = "SUCCESS"
                      /\ \E s \in subs' :
                            /\ s.id = p.subscription_id
                            /\ s.status = "ACTIVE"
                            /\ s.group_id = GroupOf(r)
                            /\ (subs' \ {s}) \subseteq subs]_vars

\* one approval committed both rows, another lost both to a database failure
C4_Witness ==
    \E r1, r2 \in Reqs :
        /\ Succeeded(r1)
        /\ PaymentsOfTid(payments, PayOf(r1)) # {}
        /\ FailedWith(r2, "db_save_failed")
        /\ PaymentsOfTid(payments, PayOf(r2)) = {}

\* C5: a database failure after the gateway approved leads to exactly one
\* gateway cancel with the approved transaction id and amount, issued before
\* the request is answered, and leaves the ledger as it was.
C5_CompensatingCancel ==
    /\ [](\A r \in Reqs :
            IF FailedWith(r, "db_save_failed")
              THEN /\ Len(cancelLog[r]) = 1
                   /\ cancelLog[r][1].tid = PayOf(r)
                   /\ cancelLog[r][1].cancel_amount = payment_info[PayOf(r)].amount
                   /\ PaymentsOfTid(payments, PayOf(r)) = {}
                   /\ \A s \in subs : s.id # PayOf(r)
              ELSE cancelLog[r] = <<>>)
    /\ [][\A r \in Reqs :
            (pc[r] # "compensate" /\ pc'[r] = "compensate") =>
               /\ gwRes[r] = "ok"
               /\ subs' = subs
               /\ payments' = payments
               /\ resp'[r] = NoResp]_vars

\* a request whose database write failed has been answered
C5_Witness ==
    \E r \in Reqs :
        /\ FailedWith(r, "db_save_failed")
        /\ Len(cancelLog[r]) = 1
        /\ gw[PayOf(r)] = "cancelled"

\* C6: a Subscription is ACTIVE, and a Payment row exists, only on a
\* transaction the gateway approved; a rejected approve call ends in failure
\* with nothing created or changed.
C6_OnlyAfterGatewayApproval ==
    /\ \A p \in PaymentRows : p.pg_tid \in PayIds => gw[p.pg_tid] = "approved"
    /\ \A g \in Groups : \A s \in ActiveRows(g) :
          \E p \in PaymentRows :
              /\ p.subscription_id = s.id
              /\ p.pg_tid \in PayIds
              /\ gw[p.pg_tid] = "approved"
              /\ payment_info[p.pg_tid].group_id = g
    /\ \A r \in Reqs :
          gwRes[r] \in {"rejected", "already"} =>
              /\ FailedWith(r, "approve_failed")
              /\ cancelLog[r] = <<>>

\* the gateway rejected an approve call and the group has no ACTIVE row
C6_Witness ==
    \E r \in Reqs :
        /\ gwRes[r] = "rejected"
        /\ Done(r)
        /\ gw[PayOf(r)] = "ready"
        /\ ActiveRows(GroupOf(r)) = {}
        /\ PaymentsOfTid(payments, PayOf(r)) = {}

\* C7: prepare then approve for a group without an ACTIVE subscription:
\* afterwards neither payment_cache key of the payment is left, the group has exactly
\* one ACTIVE row with start_date the day of the activation and
\* next_billing_date = start_date + 30, and exactly one SUCCESS Payment row
\* exists for the transaction.
C7_RoundTrip ==
    [][\A r \in Reqs :
          /\ (pc[r] = "upsert" /\ pc'[r] = "flush_sub") =>
                /\ req'[r].target.status = "ACTIVE"
                /\ req'[r].target.start_date = today
                /\ req'[r].target.next_billing_date = today + BillingPeriod
          /\ (CommitStep(r) /\ ActiveRows(GroupOf(r)) = {}) =>
                /\ KeysOf(PayOf(r)) \cap payment_cache' = {}
                /\ \E s \in subs' :
                      /\ ActiveIn(subs', GroupOf(r)) = {s}
                      /\ s.start_date = req[r].target.start_date
                      /\ s.next_billing_date = s.start_date + BillingPeriod
                      /\ resp'[r].subscription_id = s.id
                      /\ \E k \in 1..Len(payments') :
                            /\ PaymentsOfTid(payments', PayOf(r)) = {k}
                            /\ payments'[k].status = "SUCCESS"
                            /\ payments'[k].subscription_id = s.id]_vars

\* an approve succeeded on a later day than the row's first start: the row
\* is ACTIVE from today, billed 30 days on, and the payment_cache is empty of it
C7_Witness ==
    \E r \in Reqs : \E s \in subs :
        /\ Succeeded(r)
        /\ today = MaxDay
        /\ ActiveRows(GroupOf(r)) = {s}
        /\ s.id < 0
        /\ s.start_date = today
        /\ s.next_billing_date = today + BillingPeriod
        /\ KeysOf(PayOf(r)) \cap payment_cache = {}

\* C8: after an approve attempt that ends in a transient gateway error the
\* cached context is still there for a retry with the same correlation id.
C8_RetryFindsContext ==
    \A r \in Reqs :
        (/\ FailedWith(r, "transport_error")
         /\ \A q \in Reqs : PayOf(q) = PayOf(r) => (q = r \/ pc[q] = "idle"))
        => TempKey(PayOf(r)) \in payment_cache

\* C9: a timeout of the gateway approve call is answered differently from a
\* gateway rejection and does not discard the payment context.
C9_TimeoutIsNotDefinite ==
    \A r \in Reqs :
        (Done(r) /\ gwRes[r] \in {"timeout", "timeout_charged"})
        => /\ resp[r].error # "approve_failed"
           /\ KeysOf(PayOf(r)) \subseteq payment_cache

\* C10: a replayed approve that the gateway answers with "already processed",
\* after another callback of the same transaction succeeded, is answered on
\* the success path.
C10_ReplayIsSuccess ==
    \A r \in Reqs :
        (/\ Done(r)
         /\ gwRes[r] = "already"
         /\ \E q \in Reqs \ {r} : PayOf(q) = PayOf(r) /\ Succeeded(q))
        => resp[r].page = "success"

\* C11: an approve whose temp_id has no entry in the cache (never there,
\* consumed, or removed) is answered with the fail redirect "payment info
\* not found"; no gateway call is made, ledger and cache stay as they were.
C11_ContextNotFound ==
    [][\A r \in Reqs :
          (/\ pc[r] = "idle" /\ pc'[r] # "idle"
           /\ TempKey(req'[r].pay) \notin payment_cache)
          => /\ pc'[r] = "done"
             /\ resp'[r] = Redirect("fail", "context_not_found", 0)
             /\ payment_cache' = payment_cache
             /\ UNCHANGED <<gw, gwRes, cancelLog, subs, payments>>]_vars

\* a callback came back for a payment another callback had consumed, and
\* one for a payment whose temp_id an earlier failure had removed
C11_Witness ==
    \E r, q \in Reqs :
        /\ FailedWith(r, "context_not_found")
        /\ PayOf(q) = PayOf(r)
        /\ \/ Succeeded(q)
           \/ FailedWith(q, "approve_failed") /\ TidKey(PayOf(r)) \in payment_cache

\* a ready_payment request that was just answered
ReadyAnswered == last' # last /\ last'.handler = "ready_payment"

\* C12: ready_payment refuses a member who is not the leader (403) and a
\* leader whose group has an ACTIVE subscription (400); a refused request
\* made no gateway call and left the cache as it was.
C12_PrepareRefused ==
    [][ReadyAnswered =>
          LET membership == check_user_membership(last'.user)
          IN  /\ (membership # NoMembership /\ membership.role # "LEADER")
                    => (last'.status = 403 /\ last'.detail = "not_leader")
              /\ (membership.role = "LEADER" /\ ActiveRows(membership.group_id) # {})
                    => (last'.status = 400 /\ last'.detail = "already_active")
              /\ last'.status \in {400, 403}
                    => /\ last'.gateway = "none"
                       /\ UNCHANGED <<payment_cache, payment_info, gw, subs,
                                      payments>>]_vars

\* the leader of a group with an ACTIVE subscription was refused, and the
\* cache holds no entry
C12_Witness ==
    /\ last.handler = "ready_payment"
    /\ last.status = 400
    /\ ActiveRows(check_user_membership(last.user).group_id) # {}
    /\ \A i \in PayIds : TempKey(i) \notin payment_cache

\* C13: when the gateway's ready call fails (timeout, network error, error
\* status, answer without tid) the request fails and nothing is created:
\* cache, gateway transactions and ledger are as before.
C13_FailedPrepareCreatesNothing ==
    [][(ReadyAnswered /\ last'.gateway \notin {"none", "ok"})
          => /\ last'.status = 500
             /\ UNCHANGED <<payment_cache, payment_info, gw, subs, payments>>]_vars

\* the gateway answered without a tid, after one payment had been prepared
C13_Witness ==
    /\ last.handler = "ready_payment"
    /\ last.gateway = "no_tid"
    /\ last.status = 500
    /\ \E i \in PayIds : KeysOf(i) \subseteq payment_cache

\* C14: a cancel or fail callback of payment i leaves no cache entry of i,
\* makes no gateway call, changes no ledger row and is answered normally.
C14_CallbackPurges ==
    [][(last' # last /\ last'.handler \in {"cancel_payment", "fail_payment"})
          => /\ KeysOf(last'.temp_id) \cap payment_cache' = {}
             /\ last'.status = 307
             /\ UNCHANGED <<gw, subs, payments>>]_vars

\* C15: every cache entry is eventually removed; in particular no key of a
\* payment stays after the gateway rejected its approve.
C15_EntriesEventuallyRemoved ==
    \A i \in PayIds :
        (TidKey(i) \in payment_cache) ~> (KeysOf(i) \cap payment_cache = {})

\* ---------------------------------------------- claims on cancellation
\* request c takes its first step as a subscriber's cancel_subscription
Begins(c) == cancelReq[c].pc = "idle" /\ cancelReq'[c].kind = "subscriber"

\* request c takes the step that writes and commits its cancellation
Writes(c) == cancelReq[c].pc = "write" /\ cancelReq'[c].pc # "write"

\* the step ended in a rollback: 500, ledger as before
RolledBack(c) ==
    /\ cancelReq'[c].resp = HttpError(500, "cancel_failed")
    /\ UNCHANGED <<subs, payments>>

CancelledIn(S, id, day) ==
    \E x \in S : x.id = id /\ x.status = "CANCELLED" /\ x.end_date = day

\* C16: cancel_subscription by the payer on a CANCELLED subscription returns
\* the same answer every time (already cancelled, the row's end date, refund
\* amount 0), calls the gateway not at all and leaves every row as it was.
C16_CancelIdempotent ==
    [][\A c \in CancelReqs :
          LET row == get(cancelReq'[c].subscription_id)
          IN  (Begins(c) /\ row.status = "CANCELLED" /\ row.user_id = cancelReq'[c].user)
              => /\ cancelReq'[c].pc = "done"
                 /\ cancelReq'[c].resp =
                       [status |-> 200, message |-> "already_cancelled",
                        cancelled_at |-> row.end_date, refund_amount |-> 0,
                        payment_cancel_status |-> "none"]
                 /\ cancelReq'[c].calls = <<>>
                 /\ UNCHANGED <<subs, payments, gw>>]_vars

\* the payer cancelled a CANCELLED subscription twice, with one answer
C16_Witness ==
    \E c1, c2 \in CancelReqs :
        /\ c1 # c2
        /\ cancelReq[c1].resp.message = "already_cancelled"
        /\ cancelReq[c1].resp = cancelReq[c2].resp
        /\ cancelReq[c1].subscription_id = cancelReq[c2].subscription_id
        /\ get(cancelReq[c1].subscription_id).status = "CANCELLED"

\* C17: a generic failure of the gateway cancel call does not stop the
\* subscriber's cancellation: the call's outcome never ends the request, and
\* the commit that follows leaves the subscription CANCELLED with end_date
\* today and answers payment_cancel_status failed, refund_amount 0.
C17_CancelDespiteRefundFailure ==
    [][\A c \in CancelReqs :
          /\ (cancelReq[c].pc = "gateway" /\ cancelReq'[c] # cancelReq[c])
                => cancelReq'[c].pc = "write" /\ cancelReq'[c].resp = NoCancelResp
          /\ (/\ Writes(c)
              /\ cancelReq[c].kind = "subscriber"
              /\ cancelReq[c].gateway \in {"rejected", "timeout", "timeout_cancelled"})
                => \/ RolledBack(c)
                   \/ /\ CancelledIn(subs', cancelReq[c].subscription_id, today)
                      /\ payments' = payments
                      /\ cancelReq'[c].resp =
                            [status |-> 200, message |-> "cancelled",
                             cancelled_at |-> today, refund_amount |-> 0,
                             payment_cancel_status |-> "failed"]]_vars

\* a cancellation went through on a later day although the refund failed
C17_Witness ==
    \E c \in CancelReqs :
        /\ cancelReq[c].kind = "subscriber"
        /\ cancelReq[c].resp.status = 200
        /\ cancelReq[c].resp.payment_cancel_status = "failed"
        /\ Len(cancelReq[c].calls) = 1
        /\ today = MaxDay
        /\ CancelledIn(subs, cancelReq[c].subscription_id, MaxDay)

\* C18: in both cancellation flows the refund attempt comes before the
\* ledger change: the gateway call changes no row, rows change only in a
\* commit step, and the commit that turns a subscription CANCELLED belongs to
\* a request that has already called the gateway for the tid of the
\* subscription's most recent payment (when there is such a payment and it
\* has a tid).
C18_RefundBeforeMutation ==
    [][/\ \A c \in CancelReqs :
             cancelReq'[c].calls # cancelReq[c].calls
                => UNCHANGED <<subs, payments>>
       /\ (subs' # subs \/ payments' # payments)
             => \E c \in CancelReqs :
                   cancelReq[c].pc \in {"write", "delete"} /\ cancelReq'[c] # cancelReq[c]
       /\ \A x \in subs' :
             (x.status = "CANCELLED" /\ get(x.id).status # "CANCELLED")
                => \E c \in CancelReqs :
                      /\ Writes(c)
                      /\ cancelReq[c].subscription_id = x.id
                      /\ LET K == PaymentsOfSub(x.id)
                         IN  \/ K = {}
                             \/ \E k \in K :
                                   /\ \A j \in K : j <= k
                                   /\ \/ payments[k].pg_tid = 0
                                      \/ \E n \in 1..Len(cancelReq[c].calls) :
                                            cancelReq[c].calls[n].tid =
                                               payments[k].pg_tid]_vars

\* a group deletion has committed its cancellation, after its refund call,
\* and has not yet deleted the row
C18_Witness ==
    \E c \in CancelReqs :
        /\ cancelReq[c].kind = "group_delete"
        /\ cancelReq[c].pc = "delete"
        /\ Len(cancelReq[c].calls) = 1
        /\ get(cancelReq[c].subscription_id).status = "CANCELLED"
        /\ Len(payments) = 2

\* C19: cancel_subscription by a user who is not the subscription's payer is
\* answered 403; that request never calls the gateway and changes no row.
C19_NotOwner ==
    [][\A c \in CancelReqs :
          LET row == get(cancelReq'[c].subscription_id)
          IN  (Begins(c) /\ row # NoRow /\ row.user_id # cancelReq'[c].user)
              => /\ cancelReq'[c].pc = "done"
                 /\ cancelReq'[c].resp = HttpError(403, "not_owner")
                 /\ cancelReq'[c].calls = <<>>
                 /\ UNCHANGED <<subs, payments, gw>>]_vars

\* somebody else tried to cancel an ACTIVE subscription, which is still ACTIVE
C19_Witness ==
    \E c \in CancelReqs :
        /\ cancelReq[c].resp.status = 403
        /\ cancelReq[c].calls = <<>>
        /\ get(cancelReq[c].subscription_id).status = "ACTIVE"
        /\ get(cancelReq[c].subscription_id).user_id # cancelReq[c].user

RefundedIn(P, transaction_id) ==
    \E k \in 1..Len(P) : P[k].transaction_id = transaction_id /\ P[k].status = "REFUNDED"

\* C20: when the gateway cancel of the most recent payment succeeded, the
\* commit of the cancellation marks that payment REFUNDED in the same step
\* that turns the subscription CANCELLED, and the answer reports success
\* with the payment's amount; a payment becomes REFUNDED in no other way.
C20_RefundRecorded ==
    [][/\ \A c \in CancelReqs :
             (Writes(c) /\ cancelReq[c].gateway = "ok")
                => \/ RolledBack(c)
                   \/ /\ RefundedIn(payments', cancelReq[c].recent_payment.transaction_id)
                      /\ CancelledIn(subs', cancelReq[c].subscription_id, today)
                      /\ cancelReq'[c].payment_cancel_status = "success"
                      /\ cancelReq'[c].refund_amount = cancelReq[c].recent_payment.amount
                      /\ cancelReq[c].kind = "subscriber"
                            => cancelReq'[c].resp =
                                  [status |-> 200, message |-> "cancelled",
                                   cancelled_at |-> today,
                                   refund_amount |-> cancelReq[c].recent_payment.amount,
                                   payment_cancel_status |-> "success"]
       /\ \A k \in 1..Len(payments) :
             (payments[k].status # "REFUNDED"
              /\ RefundedIn(payments', payments[k].transaction_id))
                => \E c \in CancelReqs :
                      /\ Writes(c)
                      /\ cancelReq[c].gateway = "ok"
                      /\ cancelReq[c].calls[1].tid = payments[k].pg_tid
                      /\ CancelledIn(subs', payments[k].subscription_id, today)]_vars

\* a subscriber's cancellation refunded the payment of a reactivated
\* subscription: that payment is REFUNDED and the row is CANCELLED
C20_Witness ==
    \E c \in CancelReqs :
        /\ cancelReq[c].kind = "subscriber"
        /\ cancelReq[c].resp.payment_cancel_status = "success"
        /\ cancelReq[c].resp.refund_amount = Amount
        /\ Len(payments) = 2
        /\ payments[2].status = "REFUNDED"
        /\ payments[2].pg_tid = cancelReq[c].calls[1].tid
        /\ get(cancelReq[c].subscription_id).status = "CANCELLED"

\* C21: when the gateway answers the cancel call of a subscriber's
\* cancellation with code -780 or with code -721, the cancellation commits
\* as a success: the subscription is CANCELLED, the answer reports the
\* payment's amount as refund_amount and payment_cancel_status
\* already_cancelled.
C21_AlreadyCancelledCodes ==
    [][\A c \in CancelReqs :
          (/\ Writes(c)
           /\ cancelReq[c].kind = "subscriber"
           /\ cancelReq[c].gateway \in {"code_780", "code_721", "code_721_invalid_tid"})
             => \/ RolledBack(c)
                \/ /\ CancelledIn(subs', cancelReq[c].subscription_id, today)
                   /\ cancelReq'[c].resp =
                         [status |-> 200, message |-> "cancelled",
                          cancelled_at |-> today,
                          refund_amount |-> cancelReq[c].recent_payment.amount,
                          payment_cancel_status |-> "already_cancelled"]]_vars

\* C22: a group deletion cancels and then hard-deletes the subscription in
\* two commits, in that order: between its cancel step and its delete step
\* the group has no ACTIVE row; its cancel commit leaves the row CANCELLED
\* and still there, its delete commit leaves no row of the group; and every
\* row of the group in a committed state is as it was before, or CANCELLED.
C22_CancelThenDelete ==
    /\ [](\A c \in CancelReqs :
            (cancelReq[c].kind = "group_delete" /\ cancelReq[c].pc = "delete")
               => ActiveRows(cancelReq[c].group_id) = {})
    /\ [][\A c \in CancelReqs :
             cancelReq[c].kind = "group_delete" =>
                /\ Writes(c)
                     => \/ RolledBack(c)
                        \/ /\ cancelReq'[c].pc = "delete"
                           /\ CancelledIn(subs', cancelReq[c].subscription_id, today)
                /\ (cancelReq[c].pc = "delete" /\ cancelReq'[c].pc = "done")
                     => \/ /\ cancelReq'[c].resp.status = 500
                           /\ UNCHANGED <<subs, payments>>
                        \/ /\ cancelReq'[c].resp.status = 200
                           /\ {x \in subs' : x.group_id = cancelReq[c].group_id} = {}
                /\ \A x \in subs' :
                      x.group_id = cancelReq[c].group_id
                         => x \in subs \/ x.status = "CANCELLED"]_vars

\* a group deletion stands between its two commits on a later day: the row
\* it cancelled that day is still there, with the deletion as its reason
C22_Witness ==
    \E c \in CancelReqs :
        /\ cancelReq[c].kind = "group_delete"
        /\ cancelReq[c].pc = "delete"
        /\ today = MaxDay
        /\ \E x \in RowsOfGroup(cancelReq[c].group_id) :
              /\ x.status = "CANCELLED"
              /\ x.end_date = MaxDay
              /\ x.cancel_reason = "group_delete"

\* ---------------------------------------------------- claims on billing
\* run j has ended
Ended(j) == runs[j].pc \in {"done", "aborted"}

\* C23: when a run of the billing job has ended, every subscription its due
\* query returned has had exactly one charge attempt in that run, whatever
\* the attempts of the others ended in.
C23_EveryDueAttempted ==
    \A j \in Runs :
        Ended(j) =>
            /\ Len(runs[j].attempts) = Len(runs[j].due)
            /\ \A k \in 1..Len(runs[j].due) :
                  runs[j].attempts[k].subscription_id = runs[j].due[k].id

\* the step in which run j ends the attempt for the subscription it is at
AttemptEnds(j) ==
    /\ runs[j].pc \in Executing
    /\ \/ runs'[j].pc \in {"done", "aborted"}
       \/ runs'[j].k # runs[j].k

\* the charge that ends in this step was not approved
ChargeFailed(j) ==
    \/ runs[j].pc = "expire"
    \/ runs[j].pc = "charging" /\ runs'[j].gateway \in {"rejected", "timeout"}

\* C24: when the attempt of a run for a due subscription ends and its charge
\* failed (the gateway rejected it, or the call timed out), the subscription
\* is EXPIRED with end_date today and the failure as cancel_reason (unless
\* the database refused that write), and the attempt has added no Payment
\* row.
C24_FailedChargeExpires ==
    [][\A j \in Runs :
          (AttemptEnds(j) /\ ChargeFailed(j))
             => /\ \/ \E x \in subs' :
                         /\ x.id = SubOf(j).id
                         /\ x.status = "EXPIRED"
                         /\ x.end_date = today
                         /\ x.cancel_reason = "charge_failed"
                   \/ runs[j].pc = "expire" /\ subs' = subs
                /\ payments' = payments]_vars

\* the step in which run j commits an approved charge
ChargeCommits(j) == runs[j].pc = "commit" /\ payments' # payments

\* C25: an approved recurring charge is recorded in one commit: that step
\* adds exactly one Payment row, SUCCESS, of the charged subscription, with
\* the charge's ids and the subscription's amount, sets the subscription's
\* next_billing_date to today + 30 days and leaves its status ACTIVE and
\* every other row as it was; the payments and the next_billing_date of a
\* subscription change in no other step of a run.
C25_ChargeRecorded ==
    [][/\ \A j \in Runs :
             ChargeCommits(j) =>
                LET sub == SubOf(j)
                IN  /\ Len(payments') = Len(payments) + 1
                    /\ SubSeq(payments', 1, Len(payments)) = payments
                    /\ payments'[Len(payments')] =
                          [subscription_id |-> sub.id,
                           transaction_id |-> ChargeAid(j, sub.group_id),
                           pg_tid |-> ChargeTid(j, sub.group_id),
                           amount |-> sub.amount,
                           payment_method |-> "kakao_pay_subscription",
                           status |-> "SUCCESS"]
                    /\ gw[ChargeTid(j, sub.group_id)] = "approved"
                    /\ \E x \in subs' :
                          /\ x.id = sub.id
                          /\ x.status = "ACTIVE"
                          /\ x.next_billing_date = today + BillingPeriod
                          /\ [x EXCEPT !.next_billing_date = sub.next_billing_date] \in subs
                          /\ subs' \ {x} \subseteq subs
       /\ (payments' # payments
           \/ {<<x.id, x.next_billing_date>> : x \in subs'}
                 # {<<x.id, x.next_billing_date>> : x \in subs})
             => \E j \in Runs : ChargeCommits(j)]_vars

\* a run charged a subscription a day after it fell due: its second payment
\* is recorded and its next billing date is thirty days from that day
C25_Witness ==
    \E j \in Runs, x \in subs :
        /\ today = MaxDay
        /\ runs[j].pc = "aborted"
        /\ runs[j].gateway = "ok"
        /\ x.id = runs[j].due[1].id
        /\ x.status = "ACTIVE"
        /\ x.next_billing_date = MaxDay + BillingPeriod
        /\ Cardinality(PaymentsOfSub(x.id)) = 2

\* the step in which run j makes its due query
Queries(j) == runs[j].pc = "idle" /\ runs'[j].pc \in {"charging", "done"}

\* C26: the due query of a run returns exactly the subscriptions that are
\* ACTIVE, have a mandate key and have next_billing_date <= today, each
\* once: one whose next_billing_date is tomorrow is not returned, and no
\* CANCELLED, EXPIRED or mandate-less one is.
C26_DueQuery ==
    [][\A j \in Runs :
          Queries(j) =>
             LET due == runs'[j].due
                 returned == {due[k] : k \in 1..Len(due)}
             IN  /\ Cardinality(returned) = Len(due)
                 /\ returned \subseteq subs
                 /\ \A s \in subs :
                       s \in returned <=>
                          /\ s.status = "ACTIVE"
                          /\ s.pg_customer_key # NoKey
                          /\ s.next_billing_date <= today
                 /\ \A s \in returned :
                       /\ s.next_billing_date # today + 1
                       /\ s.status \notin {"CANCELLED", "EXPIRED"}]_vars

\* the first run found nothing due on the day before a subscription's
\* next_billing_date, the second run returned that subscription on the day
\* itself and left out another group's EXPIRED row, which has a key and a
\* next_billing_date in the past
C26_Witness ==
    \E j1, j2 \in Runs :
        /\ j1 < j2
        /\ runs[j1].pc = "done" /\ runs[j1].due = <<>>
        /\ Len(runs[j2].due) = 1
        /\ runs[j2].due[1].next_billing_date = today
        /\ today > 0
        /\ \E x \in subs :
              /\ x.group_id # runs[j2].due[1].group_id
              /\ x.status = "EXPIRED"
              /\ x.pg_customer_key # NoKey
              /\ x.next_billing_date < today

\* C27: no two runs of the billing job execute at the same time: a trigger
\* that fires while a run is executing starts nothing (the new run is
\* skipped, it queries and charges nothing), so charge attempts of two runs
\* are never in flight together.
C27_NoConcurrentRuns ==
    /\ [](\A j1, j2 \in Runs :
            (runs[j1].pc \in Executing /\ runs[j2].pc \in Executing) => j1 = j2)
    /\ [][\A j \in Runs :
             (/\ runs[j].pc = "idle"
              /\ runs'[j].pc # "idle"
              /\ \E b \in Runs : runs[b].pc \in Executing)
                => /\ runs'[j] = [NoRun EXCEPT !.pc = "skipped"]
                   /\ UNCHANGED <<subs, payments, gw>>]_vars

\* the trigger fired while a run was waiting for the gateway's answer to a
\* charge: the second run was skipped
C27_Witness ==
    \E j1, j2 \in Runs :
        /\ runs[j1].pc = "charging"
        /\ Len(runs[j1].due) = 2
        /\ runs[j2].pc = "skipped"

\* ---------------------------------------------- claims on the ledger
\* C28: the status of a Subscription row changes only along ACTIVE ->
\* CANCELLED, ACTIVE -> EXPIRED, CANCELLED -> ACTIVE and EXPIRED -> ACTIVE:
\* no step turns an EXPIRED row CANCELLED or a CANCELLED row EXPIRED.
C28_StatusEdges ==
    [][\A x \in subs' :
          LET old == get(x.id)
          IN  (old # NoRow /\ old.status # x.status)
                 => <<old.status, x.status>> \in
                       {<<"ACTIVE", "CANCELLED">>, <<"ACTIVE", "EXPIRED">>,
                        <<"CANCELLED", "ACTIVE">>, <<"EXPIRED", "ACTIVE">>}]_vars

\* C29: a Subscription row that is CANCELLED or EXPIRED has no mandate key:
\* every step that writes such a row leaves its pg_customer_key empty.
C29_NoKeyAfterEnd ==
    [][\A x \in subs' :
          (x.status \in {"CANCELLED", "EXPIRED"} /\ x \notin subs)
             => x.pg_customer_key = NoKey]_vars

\* C30: the status of a Payment row changes only from SUCCESS to REFUNDED,
\* only in the commit of a cancellation whose gateway cancel of that
\* payment's tid was confirmed; a REFUNDED payment keeps its status.
C30_PaymentForward ==
    [][\A k \in 1..Len(payments), n \in 1..Len(payments') :
          (/\ payments'[n].transaction_id = payments[k].transaction_id
           /\ payments'[n].status # payments[k].status)
             => /\ payments[k].status = "SUCCESS"
                /\ payments'[n].status = "REFUNDED"
                /\ gw[payments[k].pg_tid] = "cancelled"
                /\ \E c \in CancelReqs :
                      /\ Writes(c)
                      /\ cancelReq[c].gateway = "ok"
                      /\ cancelReq[c].recent_payment.transaction_id =
                            payments[k].transaction_id]_vars

\* a group deletion has committed the refund of the payment of a
\* reactivated subscription; the payment refunded before the reactivation
\* is REFUNDED as it was
C30_Witness ==
    \E c \in CancelReqs :
        /\ cancelReq[c].kind = "group_delete"
        /\ cancelReq[c].pc = "delete"
        /\ cancelReq[c].payment_cancel_status = "success"
        /\ Len(payments) = 2
        /\ payments[1] = RefundedPayment(cancelReq[c].group_id)
        /\ payments[2].status = "REFUNDED"
        /\ gw[payments[2].pg_tid] = "cancelled"

\* C31: every committed state transition of a Subscription (the row is
\* created, or its status changes) appends one subscription_history row in
\* the same step, and the rows already there stay as they are.
C31_HistoryWritten ==
    [][/\ Len(subscription_history') =
             Len(subscription_history)
                + Cardinality({x \in subs' :
                                  \/ get(x.id) = NoRow
                                  \/ get(x.id).status # x.status})
       /\ SubSeq(subscription_history', 1, Len(subscription_history))
             = subscription_history]_vars

\* request r ended in the compensation path
Compensated(r) == pc[r] = "done" /\ Len(cancelLog[r]) = 1

C33_TwoKeys ==
    \A i \in PayIds :
        /\ (payment_info[i].prepared /\ \A r \in Reqs : req[r].pay # i)
              => KeysOf(i) \subseteq payment_cache
        /\ (/\ \E r \in Reqs : req[r].pay = i
            /\ \A r \in Reqs : req[r].pay = i => pc[r] = "done")
              => (TempKey(i) \in payment_cache <=> TidKey(i) \in payment_cache)

\* C34: however many approve callbacks carry one payment's temp_id, at most
\* one Payment row is created for its transaction, and once that row is
\* committed no callback changes the ledger or asks the gateway to cancel
\* the transaction.
C34_ActivatedOnce ==
    /\ [](\A i \in PayIds : Cardinality(PaymentsOfTid(payments, i)) <= 1)
    /\ [][\A r \in Reqs :
             (/\ req[r].pay \in PayIds
              /\ PaymentsOfTid(payments, req[r].pay) # {}
              /\ pc[r] # pc'[r])
                => /\ subs' = subs
                   /\ payments' = payments
                   /\ cancelLog'[r] = cancelLog[r]
                   /\ gw'[req[r].pay] = gw[req[r].pay]]_vars

\* two callbacks of one payment passed the cache lookup together; the first
\* activated the subscription, the second was refused by the gateway: one
\* Payment row, no cancel, the transaction still approved
C34_Witness ==
    \E r1, r2 \in Reqs :
        /\ r1 # r2
        /\ PayOf(r1) = PayOf(r2)
        /\ Succeeded(r1)
        /\ Done(r2) /\ gwRes[r2] = "already"
        /\ Cardinality(PaymentsOfTid(payments, PayOf(r1))) = 1
        /\ cancelLog[r2] = <<>>
        /\ gw[PayOf(r1)] = "approved"

\* C35: a recurring charge the gateway answered with an approval is not
\* lost: when the attempt for it ends, its SUCCESS Payment row is committed
\* with the advanced next_billing_date, or the gateway has cancelled it on
\* request.
C35_AcceptedChargeRecorded ==
    [][\A j \in Runs :
          (/\ AttemptEnds(j)
           /\ runs[j].pc = "commit"
           /\ gw'[ChargeTid(j, SubOf(j).group_id)] = "approved")
             => \E k \in 1..Len(payments') :
                   /\ payments'[k].pg_tid = ChargeTid(j, SubOf(j).group_id)
                   /\ payments'[k].status = "SUCCESS"
                   /\ \E x \in subs' :
                         /\ x.id = SubOf(j).id
                         /\ x.next_billing_date > today]_vars

\* C37: a subscription whose charge a run has attempted is not due any more
\* on that day: when the attempt ends, the due query for today does not
\* return it, so a second run that day does not charge it.
C37_NotDueAfterAttempt ==
    [][\A j \in Runs :
          AttemptEnds(j) =>
             \A x \in subs' :
                x.id = SubOf(j).id =>
                   ~(/\ x.status = "ACTIVE"
                     /\ x.pg_customer_key # NoKey
                     /\ x.next_billing_date <= today)]_vars

\* C38: the commit of an approval of a single (non-recurring) payment
\* leaves the group's subscription without a mandate key, on a new row and
\* on a row that was there before, so that the due query never returns it.
C38_SingleHasNoKey ==
    [][\A r \in Reqs :
          (CommitStep(r) /\ ~payment_info[PayOf(r)].is_subscription)
             => \A x \in subs' :
                   x.group_id = GroupOf(r)
                      => /\ x.pg_customer_key = NoKey
                         /\ x \notin DueRows(subs', x.next_billing_date)]_vars

\* C39: a cancel request of a cancellation carries the merchant id the
\* payment was approved or charged under: it is sent with the recurring cid
\* exactly when the payment's method is kakao_pay_subscription.
C39_CancelUnderSameCid ==
    [][\A c \in CancelReqs :
          Len(cancelReq'[c].calls) = Len(cancelReq[c].calls) + 1
             => LET call == cancelReq'[c].calls[Len(cancelReq'[c].calls)]
                IN  \A k \in 1..Len(payments) :
                       payments[k].pg_tid = call.tid
                          => (call.is_subscription <=>
                                 payments[k].payment_method = "kakao_pay_subscription")]_vars

\* ------------------------------------------- billing and cancellation
\* One run of the billing job with one cancellation going on, by the payer
\* or by the deletion of the group, of group 1's subscription, which is due.
DueInit ==
    /\ BillingInit
    /\ \E s \in DueRows(subs, today) : s.group_id = 1

BillingCancelNext ==
    \/ Tick
    \/ RunStart(1)
    \/ \E o \in ChargeOutcomes : ChargeGateway(1, o)
    \/ \E f \in BOOLEAN : ChargeCommit(1, f)
    \/ \E f \in DbFailures : ChargeExpire(1, f)
    \/ CancelBegin(1, Leader(1), 0 - 1)
    \/ DeleteBegin(1, 1)
    \/ CancelRecent(1)
    \/ \E o \in RefundOutcomes : CancelRefund(1, o)
    \/ \E f \in BOOLEAN : CancelCommit(1, f)
    \/ \E f \in BOOLEAN : HardDelete(1, f)

BillingCancelSpec == DueInit /\ [][BillingCancelNext]_vars

\* C36: the billing job sends no recurring charge for a subscription whose
\* cancellation is committed at the time of the call, and no step of a run
\* changes the status, the cancel reason or the end date of a CANCELLED row.
C36_NoChargeAfterCancel ==
    [][\A j \in Runs :
          /\ (runs[j].pc = "charging" /\ runs'[j].attempts # runs[j].attempts)
                => /\ get(SubOf(j).id) # NoRow
                   /\ get(SubOf(j).id).status # "CANCELLED"
          /\ (runs[j].pc \in {"commit", "expire"} /\ runs'[j] # runs[j])
                => \A x \in subs :
                      x.status = "CANCELLED"
                         => \E y \in subs' :
                               /\ y.id = x.id
                               /\ y.status = "CANCELLED"
                               /\ y.cancel_reason = x.cancel_reason
                               /\ y.end_date = x.end_date]_vars
====
